---------------------------- MODULE Spec2Model ----------------------------
(***************************************************************************)
(* A model of afterglow: the APA102 LED strip container and its cached     *)
(* SPI serialization (src/src/led.rs), the pixel-to-segment map and the    *)
(* per-frame aggregation loop (src/src/afterglow.rs).                      *)
(*                                                                         *)
(* Three specifications share the variables:                               *)
(*   SpecStrip  an arbitrary caller of LEDStrip's methods                  *)
(*   SpecMap    build_segment_map applied to bounded inputs                *)
(*   Spec       the control loop of afterglow.rs main                      *)
(***************************************************************************)
EXTENDS Integers, Sequences, FiniteSets

\* ------------------------------------------------------------------ bounds
\* largest LED count N of a strip / segment map
MaxN == 3
\* largest frame width and height handed to build_segment_map in SpecMap
MaxDim == 5
\* largest number of pixels (width*height) of a frame of the control loop
MaxPixels == 4
\* number of ticks of the control loop that are followed
MaxTicks == 2

\* u32 colour arguments given to new_with_data / set_led: 0x4b8040 and
\* 0x01f329b2 (a value whose top byte is not zero)
Colors == {4948032, 32713138}

VARIABLES
    \* LEDStrip<N>
    N,              \* the const generic N
    data,           \* LEDStrip::data, a sequence of N frames <<r, g, b>>
    spi_data,       \* LEDStrip::spi_data, the LazyCell
    \* what the caller of the strip observed
    call,           \* the last call made: <<method>> or <<method, index>>
    err,            \* panic message of the last call, or NoErr
    ret,            \* value returned by the last get_led, or NoRet
    written,        \* per index, the u32 last passed for it
    lastRead,       \* bytes returned by the last get_spi_data; NoRead before the
                    \* first one and after two set_led calls since it
    prevRead,       \* bytes returned by the get_spi_data before the last one, while
                    \* exactly one set_led lies between the two and none after; else NoRead
    sets,           \* successful set_led calls since the last get_spi_data (0, 1, 2 = more)
    setIdx,         \* index of that set_led when it is the only one, else 0
    \* build_segment_map
    width, height,
    segment_map,    \* the table, or NoMap before it is built
    \* control loop of main
    pc,
    decoded_image,  \* the pixel buffer of the current tick
    led_values,     \* per segment <<sum r^2, sum g^2, sum b^2>>
    counts,         \* per segment pixel count
    index,          \* position of the set_led loop
    bus,            \* bytes handed to spi.write in this tick, or NoRead
    ticks

stripVars == <<N, data, spi_data, call, err, ret, written, lastRead, prevRead, sets, setIdx>>
mapVars == <<width, height, segment_map>>
loopVars == <<pc, decoded_image, led_values, counts, index, bus, ticks>>
vars == <<stripVars, mapVars, loopVars>>

NoErr == "none"
OutOfBounds == "index out of bounds"
DivideByZero == "attempt to divide by zero"
SliceIndex == "index out of bounds: segment_map"
NoRet == <<>>
NoRead == <<-1>>
NoMap == <<>>
\* Option<usize>
None == <<>>
Some(s) == <<s>>

Min(a, b) == IF a <= b THEN a ELSE b

\* ------------------------------------------------------------ src/src/led.rs

\* LazyCell::new(): the empty cell
EmptyCell == [filled |-> FALSE, bytes |-> <<>>]

start_frame_spi_data == <<0, 0, 0, 0>>

end_frame_spi_data == <<255, 255, 255, 255>>

\* plausible bug: the bytes of the u32 taken little-endian
led_frame_le(color) ==
    <<color % 256, (color \div 256) % 256, (color \div 65536) % 256>>

\* APA102DataFrame::led_frame: let [_, r, g, b] = data.to_be_bytes()
led_frame(color) ==
    <<(color \div 65536) % 256, (color \div 256) % 256, color % 256>>

\* APA102DataFrame::get_spi_data: [0xff, *b, *g, *r]
frame_spi_data(f) == <<255, f[3], f[2], f[1]>>

RECURSIVE Repeat(_, _)
\* `for _ in 0..n { v.extend(chunk) }`
Repeat(chunk, n) == IF n <= 0 THEN <<>> ELSE chunk \o Repeat(chunk, n - 1)

RECURSIVE Frames(_)
\* `for frame in self.data.iter() { v.extend(frame.get_spi_data()) }`
Frames(d) == IF d = <<>> THEN <<>> ELSE frame_spi_data(Head(d)) \o Frames(Tail(d))

\* plausible bug: one end frame per two LEDs, rounded down
build_spi_data_few_end_frames(d) ==
    start_frame_spi_data \o Frames(d) \o Repeat(end_frame_spi_data, Len(d) \div 2)

\* LEDStrip::get_spi_data, the branch that fills the cell
build_spi_data(d) ==
    LET num_end_frames == (Len(d) + 1) \div 2
    IN  start_frame_spi_data \o Frames(d) \o Repeat(end_frame_spi_data, num_end_frames)

\* LEDStrip::get_spi_data: the cell after the call; its bytes are what is returned
get_spi_data(d, cell) ==
    IF ~cell.filled THEN [filled |-> TRUE, bytes |-> build_spi_data(d)] ELSE cell

\* LEDStrip::new_with_data
new_with_data(colors) == [i \in 1..Len(colors) |-> led_frame(colors[i])]

\* LEDStrip::get_led
get_led(d, i) ==
    IF ~(i < Len(d)) THEN [err |-> OutOfBounds, ret |-> NoRet]
    ELSE [err |-> NoErr, ret |-> d[i + 1]]

\* plausible bug: the cached bytes are kept across a write
set_led_keeps_cache(d, cell, i, color) ==
    IF ~(i < Len(d)) THEN [err |-> OutOfBounds, data |-> d, spi_data |-> cell]
    ELSE [err |-> NoErr, data |-> [d EXCEPT ![i + 1] = led_frame(color)],
          spi_data |-> cell]

\* plausible bug: the cache is cleared before the index is checked
set_led_clears_first(d, cell, i, color) ==
    IF ~(i < Len(d)) THEN [err |-> OutOfBounds, data |-> d, spi_data |-> EmptyCell]
    ELSE [err |-> NoErr, data |-> [d EXCEPT ![i + 1] = led_frame(color)],
          spi_data |-> EmptyCell]

\* plausible bug: the slot written is one off (the last index wraps to the first)
set_led_off_by_one(d, cell, i, color) ==
    IF ~(i < Len(d)) THEN [err |-> OutOfBounds, data |-> d, spi_data |-> cell]
    ELSE [err |-> NoErr,
          data |-> [d EXCEPT ![((i + 1) % Len(d)) + 1] = led_frame(color)],
          spi_data |-> IF cell.filled THEN EmptyCell ELSE cell]

\* LEDStrip::set_led
set_led(d, cell, i, color) ==
    IF ~(i < Len(d)) THEN [err |-> OutOfBounds, data |-> d, spi_data |-> cell]
    ELSE [err |-> NoErr, data |-> [d EXCEPT ![i + 1] = led_frame(color)],
          spi_data |-> IF cell.filled THEN EmptyCell ELSE cell]

\* ---------------------------------------------- a caller of LEDStrip (SpecStrip)

IdleMap == width = 1 /\ height = 1 /\ segment_map = NoMap
IdleLoop ==
    /\ pc = "idle" /\ decoded_image = <<>> /\ led_values = <<>> /\ counts = <<>>
    /\ index = 0 /\ bus = NoRead /\ ticks = 0

\* LEDStrip::new() is new_with_data([0; N])
InitStrip ==
    /\ N \in 1..MaxN
    /\ \E colors \in [1..N -> Colors \cup {0}] :
        /\ data = new_with_data(colors)
        /\ written = colors
    /\ spi_data = EmptyCell
    /\ call = <<"new_with_data">> /\ err = NoErr /\ ret = NoRet
    /\ lastRead = NoRead /\ prevRead = NoRead /\ sets = 0 /\ setIdx = 0
    /\ IdleMap /\ IdleLoop

\* led_strip.get_spi_data()
GetSpiData ==
    LET cell == get_spi_data(data, spi_data)
    IN  /\ spi_data' = cell
        /\ lastRead' = cell.bytes
        /\ prevRead' = IF sets = 1 THEN lastRead ELSE NoRead
        /\ setIdx' = IF sets = 1 THEN setIdx ELSE 0
        /\ sets' = 0
        /\ call' = <<"get_spi_data">> /\ err' = NoErr /\ ret' = NoRet
        /\ UNCHANGED <<N, data, written, mapVars, loopVars>>

\* led_strip.get_led(i), i possibly out of range
GetLed ==
    \E i \in 0..N :
        LET r == get_led(data, i)
        IN  /\ call' = <<"get_led", i>> /\ err' = r.err /\ ret' = r.ret
            /\ UNCHANGED <<N, data, spi_data, written, lastRead, prevRead, sets,
                           setIdx, mapVars, loopVars>>

\* led_strip.set_led(i, color), i possibly out of range
SetLed ==
    \E i \in 0..N, color \in Colors :
        LET r == set_led(data, spi_data, i, color)
        IN  /\ call' = <<"set_led", i>> /\ err' = r.err /\ ret' = NoRet
            /\ data' = r.data /\ spi_data' = r.spi_data
            /\ IF r.err = NoErr
               THEN /\ written' = [written EXCEPT ![i + 1] = color]
                    /\ sets' = Min(sets + 1, 2)
                    /\ setIdx' = IF sets = 0 THEN i ELSE 0
                    /\ lastRead' = IF sets = 0 THEN lastRead ELSE NoRead
                    /\ prevRead' = NoRead
               ELSE UNCHANGED <<written, sets, setIdx, lastRead, prevRead>>
            /\ UNCHANGED <<N, mapVars, loopVars>>

NextStrip == GetSpiData \/ GetLed \/ SetLed

SpecStrip == InitStrip /\ [][NextStrip]_vars

\* ------------------------------------------------------- properties of LEDStrip

\* bytes 4+4i .. 4+4i+3 (counted from 0) of a serialization
FrameBytes(bytes, i) == SubSeq(bytes, 5 + 4 * i, 8 + 4 * i)

\* C1: a filled cache holds the encoding of the current colour sequence, and
\* the bytes get_spi_data returned are that encoding for as long as no set_led
\* follows (so a second get_spi_data returns the same bytes).
C1_CacheNeverStale ==
    /\ spi_data.filled => spi_data.bytes = build_spi_data(data)
    /\ (lastRead # NoRead /\ sets = 0) => lastRead = build_spi_data(data)

\* C1 witness: get_spi_data, one set_led that changed a colour, get_spi_data again
C1_Witness ==
    /\ prevRead # NoRead /\ lastRead # prevRead /\ sets = 0 /\ spi_data.filled

\* C2: get_spi_data returns 4 zero bytes, then one 4-byte frame per strip entry
\* in index order, then (N+1)/2 frames of 0xFF, and nothing else.
C2_Layout ==
    (lastRead # NoRead /\ sets = 0) =>
        LET ends == (N + 1) \div 2
        IN  /\ Len(lastRead) = 4 + 4 * N + 4 * ends
            /\ \A k \in 1..4 : lastRead[k] = 0
            /\ \A i \in 0..(N - 1) :
                FrameBytes(lastRead, i) = <<255, data[i + 1][3], data[i + 1][2], data[i + 1][1]>>
            /\ \A k \in (4 + 4 * N + 1)..(4 + 4 * N + 4 * ends) : lastRead[k] = 255

\* C2 witness: a serialization of a strip with more than one end frame whose
\* frames differ
C2_Witness ==
    /\ lastRead # NoRead /\ sets = 0 /\ (N + 1) \div 2 >= 2
    /\ data[1] # data[2]

\* C3: the frame of an LED given the colour r<<16 | g<<8 | b, at construction
\* or by set_led, is 0xFF, b, g, r.
C3_FrameIsBGR ==
    (lastRead # NoRead /\ sets = 0) =>
        \A i \in 0..(N - 1) :
            LET c == written[i + 1]
                r == (c \div 65536) % 256
                g == (c \div 256) % 256
                b == c % 256
            IN  FrameBytes(lastRead, i) = <<255, b, g, r>>

\* C3 witness: 0x4b8040 written by set_led is read back as FF 40 80 4B
C3_Witness ==
    /\ prevRead # NoRead /\ sets = 0 /\ call = <<"get_spi_data">>
    /\ written[setIdx + 1] = 4948032
    /\ FrameBytes(prevRead, setIdx) # <<255, 64, 128, 75>>
    /\ FrameBytes(lastRead, setIdx) = <<255, 64, 128, 75>>

\* C4: the serializations before and after one set_led(i, c) have the same
\* length and agree on every byte outside 4+4i .. 4+4i+3.
C4_OnlyThatFrameChanges ==
    prevRead # NoRead =>
        /\ Len(lastRead) = Len(prevRead)
        /\ \A k \in 1..Len(prevRead) :
            (k < 5 + 4 * setIdx \/ k > 8 + 4 * setIdx) => lastRead[k] = prevRead[k]

\* C4 witness: the set_led changed the colour of an LED that has neighbours
C4_Witness ==
    /\ prevRead # NoRead /\ N >= 3 /\ setIdx = 1
    /\ FrameBytes(lastRead, setIdx) # FrameBytes(prevRead, setIdx)

\* C5: get_led and set_led with index >= N fail with the out-of-bounds
\* condition and change neither the colours nor the cache.
C5_OutOfBoundsNoMutation ==
    [][ (call'[1] \in {"get_led", "set_led"} /\ call'[2] >= N) =>
            (err' = OutOfBounds /\ data' = data /\ spi_data' = spi_data) ]_vars

\* C5 witness: set_led out of range on a strip whose cache is filled
C5_Witness ==
    /\ call = <<"set_led", N>> /\ err = OutOfBounds /\ spi_data.filled

\* C5 witness for get_led
C5_WitnessGet ==
    /\ call = <<"get_led", N>> /\ err = OutOfBounds /\ spi_data.filled

\* ------------------------------------------- src/src/afterglow.rs: segment map

\* std::f64::consts::PI, in angle units of which PI holds 3141592 (so that PI/2
\* and PI/4, the only angles with a rational tangent, are whole numbers)
PI == 3141592

\* std::f64::consts::TAU
TAU == 2 * PI

Abs(a) == IF a < 0 THEN -a ELSE a

\* f64::atan2 for 0 <= a, b <= 4: the angle of the point (b, a), AtanTable[a+1][b+1]
\* angle units, rounded down; atan2(0, 0) is 0
AtanTable ==
    << <<      0,       0,       0,      0,      0>>,
       <<1570796,  785398,  463647, 321750, 244978>>,
       <<1570796, 1107148,  785398, 588002, 463647>>,
       <<1570796, 1249045,  982793, 785398, 643500>>,
       <<1570796, 1325817, 1107148, 927295, 785398>> >>

\* f64::atan2(dy, dx) in (-PI, PI]; dy is never -0.0, so atan2(0, dx < 0) is +PI.
\* With theta_scalar below this agrees with the f64 computation of the segment
\* for every num_leds <= 12 and |dx|, |dy| <= 4.
atan2(dy, dx) ==
    LET q == AtanTable[Abs(dy) + 1][Abs(dx) + 1]
    IN  IF dx >= 0 THEN (IF dy >= 0 THEN q ELSE -q)
        ELSE (IF dy >= 0 THEN PI - q ELSE -(PI - q))

\* plausible bug: the dead zone test inverted
outside_edge_inverted(dx, dy, edge) == dx * dx + dy * dy <= edge * edge

\* dx.hypot(dy) >= edge.into()
outside_edge(dx, dy, edge) == dx * dx + dy * dy >= edge * edge

\* plausible bug: the clamp to num_leds - 1 left out
segment_of_unclamped(theta, num_leds) == (theta * num_leds) \div TAU

\* ((theta * theta_scalar).floor() as usize).min(num_leds - 1),
\* theta_scalar = num_leds / TAU
segment_of(theta, num_leds) == Min((theta * num_leds) \div TAU, num_leds - 1)

\* the value pushed for pixel (x, y)
map_entry(num_leds, w, h, x, y) ==
    LET half_width == w \div 2
        half_height == h \div 2
        edge == Min(half_width, half_height) \div 2
        dy == y - half_height
        dx == half_width - x
    IN  IF outside_edge(dx, dy, edge)
        THEN Some(segment_of(atan2(dy, dx) + PI, num_leds))
        ELSE None

RECURSIVE map_row(_, _, _, _, _)
\* for x in 0..width { segment_table.push(..) }
map_row(num_leds, w, h, x, y) ==
    IF x >= w THEN <<>>
    ELSE <<map_entry(num_leds, w, h, x, y)>> \o map_row(num_leds, w, h, x + 1, y)

RECURSIVE map_rows(_, _, _, _)
\* for y in 0..height { .. }
map_rows(num_leds, w, h, y) ==
    IF y >= h THEN <<>>
    ELSE map_row(num_leds, w, h, 0, y) \o map_rows(num_leds, w, h, y + 1)

\* build_segment_map
build_segment_map(num_leds, w, h) == map_rows(num_leds, w, h, 0)

\* ------------------------------------------ build_segment_map applied (SpecMap)

IdleStrip ==
    /\ data = new_with_data([i \in 1..N |-> 0]) /\ spi_data = EmptyCell
    /\ call = <<"new">> /\ err = NoErr /\ ret = NoRet
    /\ written = [i \in 1..N |-> 0]
    /\ lastRead = NoRead /\ prevRead = NoRead /\ sets = 0 /\ setIdx = 0

InitMap ==
    /\ N \in 1..MaxN
    /\ width \in 1..MaxDim /\ height \in 1..MaxDim
    /\ segment_map = NoMap
    /\ IdleStrip
    /\ pc = "build" /\ decoded_image = <<>> /\ led_values = <<>> /\ counts = <<>>
    /\ index = 0 /\ bus = NoRead /\ ticks = 0

\* let segment_map = build_segment_map(NUM_LEDS, width, height)
BuildSegmentMap ==
    /\ pc = "build"
    /\ segment_map' = build_segment_map(N, width, height)
    /\ pc' = "acquire"
    /\ UNCHANGED <<stripVars, width, height, decoded_image, led_values, counts,
                   index, bus, ticks>>

NextMap == BuildSegmentMap

SpecMap == InitMap /\ [][NextMap]_vars

\* ---------------------------------------------- properties of build_segment_map

\* the table entry of pixel (x, y), row-major
EntryAt(x, y) == segment_map[y * width + x + 1]

\* C7 as stated: whenever min(width, height) >= 2 the frame-center pixel maps
\* to None.
C7_CenterNoneFrom2 ==
    (segment_map # NoMap /\ Min(width, height) >= 2) =>
        EntryAt(width \div 2, height \div 2) = None

\* C7 amended: whenever min(width, height) >= 4 the frame-center pixel
\* (width/2, height/2) maps to None, for every N.
C7_CenterNoneFrom4 ==
    (segment_map # NoMap /\ Min(width, height) >= 4) =>
        EntryAt(width \div 2, height \div 2) = None

\* C7 witness: a built map of a frame at least 4 wide and high, with a mapped
\* pixel beside the unmapped center
C7_Witness ==
    /\ segment_map # NoMap /\ Min(width, height) >= 4
    /\ EntryAt(width \div 2, height \div 2) = None
    /\ EntryAt(0, 0) # None

\* C10: the table has width*height entries in row-major order, each None or
\* Some(s) with 0 <= s < N; the pixels right of the center on the center row,
\* whose scaled angle is N, get N-1.
C10_MapShape ==
    segment_map # NoMap =>
        /\ Len(segment_map) = width * height
        /\ \A k \in 1..Len(segment_map) :
            segment_map[k] = None \/ \E s \in 0..(N - 1) : segment_map[k] = Some(s)
        /\ \A x \in 0..(width - 1), y \in 0..(height - 1) :
            LET dx == (width \div 2) - x
                dy == y - (height \div 2)
                edge == Min(width \div 2, height \div 2) \div 2
            IN  /\ (EntryAt(x, y) = None) <=> (dx * dx + dy * dy < edge * edge)
                /\ (dy = 0 /\ dx < 0 /\ -dx >= edge) => EntryAt(x, y) = Some(N - 1)

\* C10 witness: a pixel whose scaled angle floors to N (theta = TAU) is in the
\* table as N-1, in a frame that is not square
C10_Witness ==
    /\ segment_map # NoMap /\ N >= 2 /\ width > height /\ height >= 2
    /\ ((atan2(0, -1) + PI) * N) \div TAU = N
    /\ EntryAt(width - 1, height \div 2) = Some(N - 1)

\* ------------------------------------------ src/src/afterglow.rs: control loop

\* 8-bit (r, g, b) pixels a frame is made of
Palette == {<<0, 0, 0>>, <<255, 255, 255>>, <<75, 128, 64>>}

\* what the frame source may hand over relative to 3*width*height bytes: a
\* byte missing at the end, the exact length, a byte or a pixel more
LengthDeltas == {-1, 0, 1, 3}

RECURSIVE Flatten(_)
\* the RGB bytes of a sequence of pixels, row-major, 3 bytes per pixel
Flatten(pixels) ==
    IF pixels = <<>> THEN <<>> ELSE Head(pixels) \o Flatten(Tail(pixels))

\* frame.decode_image::<RgbFormat>(): pixel p has colour a, every other pixel b;
\* delta bytes are cut off or added at the end
decode_image(w, h, p, a, b, delta) ==
    LET exact == Flatten([k \in 1..(w * h) |-> IF k = p THEN a ELSE b])
    IN  IF delta < 0 THEN SubSeq(exact, 1, Len(exact) + delta)
        ELSE exact \o SubSeq(a, 1, delta)

\* plausible bug: the channel values summed, not their squares
accumulate_plain(values, cnts, segment, pixel) ==
    [led_values |->
        [values EXCEPT ![segment + 1] =
            IF cnts[segment + 1] = 0
            THEN <<pixel[1], pixel[2], pixel[3]>>
            ELSE <<@[1] + pixel[1], @[2] + pixel[2], @[3] + pixel[3]>>],
     counts |-> [cnts EXCEPT ![segment + 1] = @ + 1]]

\* the body of `if let Some(segment) = segment_map[index]`
accumulate(values, cnts, segment, pixel) ==
    [led_values |->
        [values EXCEPT ![segment + 1] =
            IF cnts[segment + 1] = 0
            THEN <<pixel[1] * pixel[1], pixel[2] * pixel[2], pixel[3] * pixel[3]>>
            ELSE <<@[1] + pixel[1] * pixel[1], @[2] + pixel[2] * pixel[2],
                   @[3] + pixel[3] * pixel[3]>>],
     counts |-> [cnts EXCEPT ![segment + 1] = @ + 1]]

RECURSIVE aggregate_from(_, _, _, _, _)
\* for (index, pixel) in decoded_image.chunks_exact(3).enumerate(), from chunk
\* k (counted from 0) on: chunks_exact yields Len \div 3 chunks and drops the
\* remainder; segment_map[index] panics past the end of the map
aggregate_from(image, map, k, values, cnts) ==
    IF k >= Len(image) \div 3
    THEN [err |-> NoErr, led_values |-> values, counts |-> cnts]
    ELSE IF ~(k < Len(map))
    THEN [err |-> SliceIndex, led_values |-> values, counts |-> cnts]
    ELSE IF map[k + 1] = None
    THEN aggregate_from(image, map, k + 1, values, cnts)
    ELSE LET acc == accumulate(values, cnts, map[k + 1][1],
                               SubSeq(image, 3 * k + 1, 3 * k + 3))
         IN  aggregate_from(image, map, k + 1, acc.led_values, acc.counts)

RECURSIVE sqrt_bits(_, _, _)
\* the largest k' >= k, built from k by adding bits from `bit` down, with k'^2 <= q
sqrt_bits(q, k, bit) ==
    IF bit = 0 THEN k
    ELSE sqrt_bits(q, IF (k + bit) * (k + bit) <= q THEN k + bit ELSE k, bit \div 2)

\* f64::sqrt of an integer below 2^16, cast to an integer: the square root is
\* below 256 and the cast truncates, which gives the largest k with k^2 <= q
sqrt_as_int(q) == sqrt_bits(q, 0, 128)

\* ((v / count) as f64).sqrt() as u32: u64 division panics on count = 0
channel(v, count) ==
    IF count = 0 THEN [err |-> DivideByZero, value |-> 0]
    ELSE [err |-> NoErr, value |-> sqrt_as_int(v \div count)]

\* the body of `for (index, led_value) in led_values.iter().enumerate()` up to
\* `let color = r << 16 | g << 8 | b`
led_color(led_value, count) ==
    LET r == channel(led_value[1], count)
        g == channel(led_value[2], count)
        b == channel(led_value[3], count)
    IN  IF r.err # NoErr THEN [err |-> r.err, color |-> 0]
        ELSE [err |-> NoErr, color |-> r.value * 65536 + g.value * 256 + b.value]

\* main up to the loop: the resolution, LEDStrip::new()
Init ==
    /\ N \in 1..MaxN
    /\ width \in 1..MaxPixels /\ height \in 1..MaxPixels
    /\ width * height <= MaxPixels
    /\ segment_map = NoMap
    /\ IdleStrip
    /\ pc = "build" /\ decoded_image = <<>> /\ led_values = <<>> /\ counts = <<>>
    /\ index = 0 /\ bus = NoRead /\ ticks = 0

\* camera.frame() and decode_image, the buffer off by one of `deltas` bytes;
\* led_values and counts start from zero
AcquireFrame(deltas) ==
    /\ pc = "acquire" /\ ticks < MaxTicks
    /\ \E p \in 1..(width * height), a \in Palette, b \in Palette, delta \in deltas :
        decoded_image' = decode_image(width, height, p, a, b, delta)
    /\ led_values' = [s \in 1..N |-> <<0, 0, 0>>]
    /\ counts' = [s \in 1..N |-> 0]
    /\ index' = 0
    /\ pc' = "aggregate"
    /\ UNCHANGED <<stripVars, mapVars, bus, ticks>>

\* a frame of any of the lengths the frame source may hand over
Acquire == AcquireFrame(LengthDeltas)

\* a frame of exactly 3*width*height bytes
AcquireExact == AcquireFrame({0})

\* the loop over the pixels
Aggregate ==
    /\ pc = "aggregate"
    /\ LET r == aggregate_from(decoded_image, segment_map, 0, led_values, counts)
       IN  /\ led_values' = r.led_values
           /\ counts' = r.counts
           /\ err' = r.err
           /\ pc' = IF r.err = NoErr THEN "set_leds" ELSE "panicked"
    /\ UNCHANGED <<N, data, spi_data, call, ret, written, lastRead, prevRead, sets,
                   setIdx, mapVars, decoded_image, index, bus, ticks>>

\* one iteration of the loop over led_values
SetLedStep ==
    /\ pc = "set_leds" /\ index < N
    /\ LET c == led_color(led_values[index + 1], counts[index + 1])
           r == set_led(data, spi_data, index, c.color)
       IN  IF c.err # NoErr
           THEN /\ err' = c.err /\ pc' = "panicked"
                /\ UNCHANGED <<data, spi_data, index>>
           ELSE /\ err' = r.err
                /\ data' = r.data /\ spi_data' = r.spi_data
                /\ index' = index + 1
                /\ pc' = IF index + 1 < N THEN "set_leds" ELSE "write"
    /\ UNCHANGED <<N, call, ret, written, lastRead, prevRead, sets, setIdx, mapVars,
                   decoded_image, led_values, counts, bus, ticks>>

\* spi.write(led_strip.get_spi_data())
Write ==
    /\ pc = "write"
    /\ LET cell == get_spi_data(data, spi_data)
       IN  /\ spi_data' = cell
           /\ bus' = cell.bytes
    /\ pc' = "sleep"
    /\ UNCHANGED <<N, data, call, err, ret, written, lastRead, prevRead, sets, setIdx,
                   mapVars, decoded_image, led_values, counts, index, ticks>>

\* thread::sleep(frame_delay), and around the loop
Sleep ==
    /\ pc = "sleep"
    /\ ticks' = ticks + 1
    /\ pc' = "acquire"
    /\ UNCHANGED <<stripVars, mapVars, decoded_image, led_values, counts, index, bus>>

Next == BuildSegmentMap \/ Acquire \/ Aggregate \/ SetLedStep \/ Write \/ Sleep

Spec == Init /\ [][Next]_vars

\* the resolutions of SpecTick: 2x2 has no dead zone, 4x4 has the center pixel
\* in the dead zone (mapped to None)
TickResolutions == {<<2, 2>>, <<4, 4>>}

\* main up to the loop, for a camera of one of TickResolutions
InitTick ==
    /\ N \in 1..MaxN
    /\ \E res \in TickResolutions : width = res[1] /\ height = res[2]
    /\ segment_map = NoMap
    /\ IdleStrip
    /\ pc = "build" /\ decoded_image = <<>> /\ led_values = <<>> /\ counts = <<>>
    /\ index = 0 /\ bus = NoRead /\ ticks = 0

NextTick == BuildSegmentMap \/ AcquireExact \/ Aggregate \/ SetLedStep \/ Write \/ Sleep

\* the control loop fed frames of the negotiated resolution
SpecTick == InitTick /\ [][NextTick]_vars

\* ------------------------------------------------ properties of the aggregator

\* the pixels (counted from 0) of the current frame that were aggregated
FramePixels ==
    0..(Min(Len(decoded_image) \div 3, Len(segment_map)) - 1)

\* the pixels of the current frame mapped to segment s
PixelsOf(s) == {k \in FramePixels : segment_map[k + 1] = Some(s)}

RECURSIVE SumOfSquares(_, _)
\* the sum over the pixels in S of the square of their channel ch (1, 2, 3)
SumOfSquares(S, ch) ==
    IF S = {} THEN 0
    ELSE LET k == CHOOSE x \in S : TRUE
             v == decoded_image[3 * k + ch]
         IN  v * v + SumOfSquares(S \ {k}, ch)

\* the integer nearest to sqrt(sum / count) over the reals (halves round up)
RoundRms(sum, count) ==
    CHOOSE k \in 0..255 :
        /\ k = 0 \/ (2 * k - 1) * (2 * k - 1) * count <= 4 * sum
        /\ 4 * sum < (2 * k + 1) * (2 * k + 1) * count

\* the largest integer not above sqrt(sum / count) over the reals
FloorRms(sum, count) ==
    CHOOSE k \in 0..255 :
        k * k * count <= sum /\ sum < (k + 1) * (k + 1) * count

\* the segments whose LED was set in the current tick
SetThisTick == IF pc \in {"set_leds", "write", "sleep", "panicked"} THEN 0..(index - 1) ELSE {}

\* C6 as stated: every LED set in this tick holds, per channel, the integer
\* nearest to the exact root-mean-square of the pixels mapped to its segment.
C6_RoundedRms ==
    \A s \in SetThisTick : \A ch \in 1..3 :
        Cardinality(PixelsOf(s)) >= 1 =>
            data[s + 1][ch] = RoundRms(SumOfSquares(PixelsOf(s), ch), Cardinality(PixelsOf(s)))

\* C6 amended: every LED set in this tick holds, per channel, the exact
\* root-mean-square of the pixels mapped to its segment rounded down, i.e.
\* floor(sqrt(floor(sum_of_squares / count))).
C6_TruncatedRms ==
    \A s \in SetThisTick : \A ch \in 1..3 :
        Cardinality(PixelsOf(s)) >= 1 =>
            data[s + 1][ch] = FloorRms(SumOfSquares(PixelsOf(s), ch), Cardinality(PixelsOf(s)))

\* C6 witness: a segment of one black and one white pixel was written as 180
C6_Witness ==
    /\ pc = "sleep"
    /\ \E s \in SetThisTick :
        /\ Cardinality(PixelsOf(s)) = 2
        /\ SumOfSquares(PixelsOf(s), 1) = 65025
        /\ data[s + 1] = <<180, 180, 180>>

\* C8: a frame of the right length that leaves a segment without pixels is not
\* an error: the tick does not end in a panic, it goes on to the bus write.
C8_ZeroCountIsNoError ==
    (/\ Len(decoded_image) = 3 * width * height
     /\ pc \notin {"build", "acquire", "aggregate"}
     /\ \E s \in 0..(N - 1) : counts[s + 1] = 0) => pc # "panicked"

\* C9: a pixel buffer whose length is not 3*width*height makes the aggregator
\* fail before any LED is set.
C9_LengthMismatchIsFatal ==
    (pc \notin {"build", "acquire", "aggregate"}
        /\ Len(decoded_image) # 3 * width * height) =>
            (pc = "panicked" /\ err = SliceIndex /\ index = 0)

\* ---------------------------------------------------- properties of one tick

\* the colour of segment s computed from the current frame alone: per channel
\* the root-mean-square of the pixels mapped to s, rounded down
ColourOfFrame(s) ==
    LET n == Cardinality(PixelsOf(s))
    IN  <<FloorRms(SumOfSquares(PixelsOf(s), 1), n),
          FloorRms(SumOfSquares(PixelsOf(s), 2), n),
          FloorRms(SumOfSquares(PixelsOf(s), 3), n)>>

RECURSIVE FramesOfFrame(_)
\* the LED frames FF, b, g, r of segments s .. N-1 for the current frame
FramesOfFrame(s) ==
    IF s >= N THEN <<>>
    ELSE LET c == ColourOfFrame(s)
         IN  <<255, c[3], c[2], c[1]>> \o FramesOfFrame(s + 1)

\* the encoding of the N colours computed from the current frame alone
BytesOfFrame ==
    <<0, 0, 0, 0>> \o FramesOfFrame(0)
        \o [k \in 1..(4 * ((N + 1) \div 2)) |-> 255]

\* the steps of a tick in order; a panic ends the program
TickOrder ==
    {<<"build", "acquire">>, <<"acquire", "aggregate">>,
     <<"aggregate", "set_leds">>, <<"aggregate", "panicked">>,
     <<"set_leds", "set_leds">>, <<"set_leds", "write">>, <<"set_leds", "panicked">>,
     <<"write", "sleep">>, <<"sleep", "acquire">>}

\* C11: a tick acquires a frame, aggregates it from zeroed accumulators, sets
\* all N LEDs in index order, serializes and writes to the bus, in this order;
\* the bytes written are the encoding of the N colours computed from this
\* tick's frame alone (pixels mapped to None left out), never a colour or a
\* cached serialization of an earlier tick.
C11_TickOrderAndBytes ==
    /\ [](pc = "aggregate" =>
            /\ index = 0
            /\ \A s \in 1..N : led_values[s] = <<0, 0, 0>> /\ counts[s] = 0)
    /\ [](pc = "write" => index = N)
    /\ [](pc = "sleep" =>
            /\ index = N
            /\ bus = BytesOfFrame
            /\ spi_data = [filled |-> TRUE, bytes |-> BytesOfFrame])
    /\ [][ /\ <<pc, pc'>> \in TickOrder
           /\ (decoded_image' # decoded_image => pc = "acquire")
           /\ (data' # data => pc = "set_leds" /\ index' = index + 1
                                /\ \A i \in 1..N : i # index + 1 => data'[i] = data[i])
           /\ (bus' # bus => pc = "write") ]_vars

\* C11 witness: the second tick has written the bus from a frame whose center
\* pixel is white and unmapped, while every LED is black; the cache had been
\* filled by the first tick
C11_Witness ==
    /\ ticks = 1 /\ pc = "sleep" /\ N >= 2
    /\ \E k \in FramePixels :
        /\ segment_map[k + 1] = None
        /\ decoded_image[3 * k + 1] = 255
    /\ \A s \in 1..N : data[s] = <<0, 0, 0>>
    /\ bus = BytesOfFrame

=============================================================================
